---------------------------- MODULE Spec2Model ----------------------------
(***************************************************************************)
(* Ortho Tracker (src/app.py): a Streamlit script that keeps a procedure   *)
(* ledger (st.session_state.data) and a staff list                         *)
(* (st.session_state.staff_list) and re-runs top to bottom on every        *)
(* interaction.  One action of this model is one run of the script with    *)
(* one menu choice and one set of widget values.                           *)
(*                                                                         *)
(* Text is a sequence of tokens: the token " " is one whitespace           *)
(* character, any other token is a run of non-whitespace characters, so    *)
(* " JACOB" is <<" ", "JACOB">> and "" is <<>>.                            *)
(* A date is <<year, month, day>>; a monthly period is <<year, month>>.    *)
(* A percentage rounded to one decimal is kept as its number of tenths     *)
(* (16.7% is 167).                                                         *)
(***************************************************************************)
EXTENDS Integers, Sequences, FiniteSets, TLC

VARIABLES
    data,        \* st.session_state.data: the ledger, a sequence of records
    staff_list,  \* st.session_state.staff_list: a sequence of names
    choice,      \* the sidebar menu choice of the last run
    out          \* what the last run rendered (tables, series, messages)

vars == <<data, staff_list, choice, out>>

----------------------------------------------------------------------------
(* Bounds of the model                                                     *)

MaxRecords == 2        \* ledger length reachable by Add Procedure (Spec)
MaxStaffAdds == 1      \* accepted Add Staff operations
GenCount == 2          \* records made by one Generate run (the source makes 50)
MaxPick == 1           \* default staff names offered to the model's user
MaxViewRecords == 2    \* ledger length in SpecViews
MaxMonthRecords == 3   \* ledger length in SpecMonths
MaxRegionRecords == 6  \* ledger length in SpecRegion
MaxRankRecords == 3    \* ledger length in SpecRank (ledgers grown from empty)
MaxRankExtra == 1      \* records added to SeedLedger in SpecRank

----------------------------------------------------------------------------
(* Text                                                                    *)

SP == " "

Txt(t) == <<t>>

RECURSIVE LStrip(_)
LStrip(s) == IF s # <<>> /\ Head(s) = SP THEN LStrip(Tail(s)) ELSE s

RECURSIVE RStrip(_)
RStrip(s) ==
    IF s # <<>> /\ s[Len(s)] = SP THEN RStrip(SubSeq(s, 1, Len(s) - 1)) ELSE s

\* str.strip(): removes leading and trailing whitespace only
Strip(s) == RStrip(LStrip(s))

\* truthiness of a Python str
Truthy(s) == s # <<>>

Range(f) == {f[i] : i \in DOMAIN f}

\* `x in list` / `x not in list`
InList(x, list) == \E i \in 1..Len(list) : list[i] = x

----------------------------------------------------------------------------
(* Program constants                                                       *)

default_staff ==
    << Txt("JOSEPHINE"), Txt("JACOB"), Txt("NYOKABI"), Txt("NAOMI"),
       Txt("CHARITY"), Txt("KEVIN"), Txt("MIRIAM"), Txt("KIGEN"),
       Txt("FAITH"), Txt("JAMES"), Txt("GEOFFREY"), Txt("SPENCER"),
       Txt("EVANS"), Txt("KENYORU") >>

menu == {"Dashboard", "Add Procedure", "Generate Monthly Report",
         "Region Report", "Forecast Procedures", "Leaderboards",
         "Manage Staff", "Generate Test Data"}

hospitals == << <<"Nairobi", SP, "Hosp">>, <<"Kijabe", SP, "Hosp">>,
                <<"MTRH", SP, "Eldoret">>, <<"Meru", SP, "Hosp">>,
                <<"Mombasa", SP, "Hosp">>, <<"Kisii", SP, "Hosp">> >>

regions == << Txt("Nairobi/Kijabe"), Txt("Eldoret"), Txt("Meru"),
              Txt("Mombasa"), Txt("Kisii") >>

procedures == << Txt("Arthroplasty"), <<"Fracture", SP, "Fixation">>,
                 <<"Spinal", SP, "Surgery">>, <<"Knee", SP, "Replacement">>,
                 <<"Hip", SP, "Replacement">> >>

surgeons == << <<"Dr.", SP, "A">>, <<"Dr.", SP, "B">>,
               <<"Dr.", SP, "C">>, <<"Dr.", SP, "D">> >>

AutoNotes == <<"Auto-generated", SP, "test", SP, "record">>

HeadN == 10            \* .head(10)
Horizon == 3           \* range(3), periods=3
RandLo == 0 - 2        \* random.randint(-2, 5)
RandHi == 5


----------------------------------------------------------------------------
(* pandas helpers, as far as the script uses them                          *)

Min(a, b) == IF a < b THEN a ELSE b

\* df[col]: one column of the table, in row order
Column(df, col) == [i \in 1..Len(df) |-> df[i][col]]

\* Series.nunique()
NUnique(col) == Cardinality(Range(col))

\* .head(n)
HeadRows(rows, n) == SubSeq(rows, 1, Min(n, Len(rows)))

\* pd.to_datetime(date): the timestamp of a date_input value (midnight)
ToDatetime(date) == date

\* .dt.to_period("M"): the calendar month of a timestamp
ToPeriodM(ts) == <<ts[1], ts[2]>>

PeriodBeforeByMonthOnly(a, b) ==
    a[2] < b[2] \/ (a[2] = b[2] /\ a[1] < b[1])

\* the order of monthly periods: groupby sorts its keys by it
PeriodBefore(a, b) ==
    a[1] < b[1] \/ (a[1] = b[1] /\ a[2] < b[2])

\* the rows <<period, number of entries>> of the periods of S, keys sorted
RECURSIVE GroupRows(_, _)
GroupRows(periods, S) ==
    IF S = {} THEN <<>>
    ELSE LET first == CHOOSE p \in S : \A q \in S \ {p} : PeriodBefore(p, q)
         IN  <<<<first, Cardinality({i \in DOMAIN periods : periods[i] = first})>>>>
                \o GroupRows(periods, S \ {first})

\* groupby(<periods>).size(), and ["Procedure"].count() when no value of the
\* counted column is null: one row <<period, rows>> per period, keys sorted
GroupByPeriod(periods) == GroupRows(periods, Range(periods))

\* Period.to_timestamp(): the first day of the month
ToTimestamp(p) == <<p[1], p[2], 1>>

MonthBeginNoCarry(ts) ==
    IF ts[2] = 12 THEN <<ts[1], 1, 1>> ELSE <<ts[1], ts[2] + 1, 1>>

\* ts + pd.offsets.MonthBegin(): the first day of the following month
MonthBegin(ts) ==
    IF ts[2] = 12 THEN <<ts[1] + 1, 1, 1>> ELSE <<ts[1], ts[2] + 1, 1>>

\* pd.date_range(start, periods=n, freq="MS") for a start on a month's first day
RECURSIVE DateRangeMS(_, _)
DateRangeMS(start, n) ==
    IF n = 0 THEN <<>> ELSE <<start>> \o DateRangeMS(MonthBegin(start), n - 1)

CountOf(col, key) == Cardinality({i \in DOMAIN col : col[i] = key})

RECURSIVE Perms(_)
Perms(S) ==
    IF S = {} THEN {<<>>}
    ELSE UNION {{<<x>> \o p : p \in Perms(S \ {x})} : x \in S}

\* the orders of the keys of cnt (key -> count) by count descending, keys of
\* equal count in any order
RECURSIVE KeyOrders(_, _)
KeyOrders(cnt, keys) ==
    IF keys = {} THEN {<<>>}
    ELSE LET top == {k \in keys : \A l \in keys : cnt[l] <= cnt[k]}
         IN  {p \o rest : p \in Perms(top), rest \in KeyOrders(cnt, keys \ top)}

ValueCountsAscending(col) ==
    LET cnt == [k \in Range(col) |-> CountOf(col, k)]
    IN  {[i \in 1..Len(o) |-> <<o[Len(o) + 1 - i], cnt[o[Len(o) + 1 - i]]>>] :
            o \in KeyOrders(cnt, DOMAIN cnt)}

\* The orders Series.value_counts() can return: rows <<key, count>> by count
\* descending.  pandas sorts the counts with sort_values(), whose default
\* kind is numpy's quicksort, which is not a stable sort: keys of equal
\* count come out in an order the numpy build decides.
ValueCounts(col) ==
    LET cnt == [k \in Range(col) |-> CountOf(col, k)]
    IN  {[i \in 1..Len(o) |-> <<o[i], cnt[o[i]]>>] :
            o \in KeyOrders(cnt, DOMAIN cnt)}

SeriesSum(rows) ==
    LET RECURSIVE S(_)
        S(i) == IF i = 0 THEN 0 ELSE rows[i][2] + S(i - 1)
    IN  S(Len(rows))

PercentTruncated(count, total) == (count * 1000) \div total

\* (count / total * 100).round(1), in tenths of a percent; numpy rounds a
\* value half way between two tenths to the even one
Percent(count, total) ==
    LET q == (count * 1000) \div total
        r == (count * 1000) % total
    IN  IF 2 * r < total THEN q
        ELSE IF 2 * r > total THEN q + 1
        ELSE IF q % 2 = 0 THEN q ELSE q + 1

\* region_percent for the rows of region_counts
RegionPercent(region_counts) ==
    [i \in 1..Len(region_counts) |->
        <<region_counts[i][1],
          Percent(region_counts[i][2], SeriesSum(region_counts))>>]

----------------------------------------------------------------------------
(* The script                                                              *)

\* one row of the table, columns as in the DataFrame
Row(date, hospital, region, procedure, surgeon, staff, notes) ==
    [Date |-> date, Hospital |-> hospital, Region |-> region,
     Procedure |-> procedure, Surgeon |-> surgeon, Staff |-> staff,
     Notes |-> notes]

\* (a new_record whose Staff is filled from the Surgeon input)
NewRecordSwap(date, hospital, region, procedure, surgeon, staff, notes) ==
    Row(ToDatetime(date), Strip(hospital), Strip(region), Strip(procedure),
        Strip(surgeon), Strip(surgeon), Strip(notes))

\* new_record of a submitted entry form
NewRecord(date, hospital, region, procedure, surgeon, staff, notes) ==
    Row(ToDatetime(date), Strip(hospital), Strip(region), Strip(procedure),
        Strip(surgeon), Strip(staff), Strip(notes))

\* pd.concat([df, pd.DataFrame([record])], ignore_index=True)
Concat(df, record) == Append(df, record)

AcceptsAnyName(new_staff, list) == ~InList(new_staff, list)

\* the condition of the Add Staff button
ValidUniqueStaff(new_staff, list) ==
    Truthy(new_staff) /\ ~InList(new_staff, list)

\* the options of st.selectbox("Staff", st.session_state.staff_list) that the
\* model's user picks from: the first `pick` names and every added name
StaffOptions(pick) ==
    {staff_list[i] : i \in {j \in 1..Len(staff_list) :
                               j <= pick \/ j > Len(default_staff)}}

\* the values the Region text input takes: the first Fresh names of In.Region
\* that no row has yet, and every name some row has
RegionInputs(In) ==
    LET used == {i \in 1..Len(In.Region) :
                    InList(Strip(In.Region[i]), Column(data, "Region"))}
        free == {i \in 1..Len(In.Region) : i \notin used}
    IN  {In.Region[i] : i \in used \cup
            {j \in free : Cardinality({k \in free : k < j}) < In.Fresh}}

\* the Staff column of SeedLedger: 11 distinct names, the first two of
\* default_staff in one row each and name i > 2 in i - 1 rows
RECURSIVE SeedStaff(_)
SeedStaff(r) ==
    IF r > 10 THEN <<>>
    ELSE (IF r = 1 THEN [i \in 1..11 |-> default_staff[i]]
          ELSE [i \in 1..(11 - r) |-> default_staff[r + i]])
            \o SeedStaff(r + 1)

\* the ledger of SpecRank's second initial state: 56 submitted records
SeedLedger ==
    [i \in 1..Len(SeedStaff(1)) |->
        NewRecord(<<2025, 1, 15>>, hospitals[1], regions[1], procedures[1],
                  surgeons[1], SeedStaff(1)[i], <<>>)]

HasRoom(In) ==
    \/ Len(data) < In.Cap
    \/ /\ In.Seeded
       /\ Len(data) >= Len(SeedLedger)
       /\ Len(data) < Len(SeedLedger) + In.Extra

Init ==
    /\ data = <<>>
    /\ staff_list = default_staff
    /\ choice = "Dashboard"
    /\ out = [kind |-> "info"]

InitRank ==
    \/ Init
    \/ /\ data = SeedLedger
       /\ staff_list = default_staff
       /\ choice = "Add Procedure"
       /\ out = [kind |-> "success"]

\* choice == "Add Procedure"
AddProcedure(In) ==
    /\ choice' = "Add Procedure"
    /\ UNCHANGED staff_list
    /\ \E submitted \in BOOLEAN :
        IF submitted
        THEN /\ HasRoom(In)
             /\ \E date \in In.Date, hospital \in In.Hospital,
                   region \in RegionInputs(In), procedure \in In.Procedure,
                   surgeon \in In.Surgeon, staff \in StaffOptions(In.Pick),
                   notes \in In.Notes :
                    data' = Concat(data, NewRecord(date, hospital, region,
                                       procedure, surgeon, staff, notes))
             /\ out' = [kind |-> "success"]
        ELSE /\ out' = [kind |-> "form"]
             /\ UNCHANGED data

\* choice == "Manage Staff"
ManageStaff(In) ==
    /\ choice' = "Manage Staff"
    /\ UNCHANGED data
    /\ \E new_staff \in In.NewStaff, pressed \in BOOLEAN :
        IF pressed
        THEN IF ValidUniqueStaff(new_staff, staff_list)
             THEN /\ Len(staff_list) < Len(default_staff) + MaxStaffAdds
                  /\ staff_list' = Append(staff_list, Strip(new_staff))
                  /\ out' = [kind |-> "success", new_staff |-> new_staff]
             ELSE /\ out' = [kind |-> "warning", new_staff |-> new_staff]
                  /\ UNCHANGED staff_list
        ELSE /\ out' = [kind |-> "list", new_staff |-> new_staff]
             /\ UNCHANGED staff_list

\* the rows one Generate run can draw: random.choice over the first GenPick
\* entries of each list and over the Staff options
GenRows(In) ==
    {Row(date, hospitals[h], regions[r], procedures[p], surgeons[s], staff,
         AutoNotes) :
        date \in In.GenDate, h \in 1..In.GenPick, r \in 1..In.GenPick,
        p \in 1..In.GenPick, s \in 1..In.GenPick,
        staff \in StaffOptions(In.Pick)}

\* choice == "Generate Test Data"
GenerateTestData(In) ==
    /\ choice' = "Generate Test Data"
    /\ UNCHANGED staff_list
    /\ \E pressed \in BOOLEAN :
        IF pressed
        THEN /\ \E new_data \in [1..GenCount -> GenRows(In)] :
                    data' = new_data
             /\ out' = [kind |-> "success"]
        ELSE /\ out' = [kind |-> "button"]
             /\ UNCHANGED data

Periods(df) == [i \in 1..Len(df) |-> ToPeriodM(df[i].Date)]

\* show_dashboard(st.session_state.data)
Dashboard ==
    /\ choice' = "Dashboard"
    /\ UNCHANGED <<data, staff_list>>
    /\ IF data = <<>>
       THEN out' = [kind |-> "info"]
       ELSE \E region_counts \in ValueCounts(Column(data, "Region")),
               staff_all \in ValueCounts(Column(data, "Staff")) :
             LET staff_counts == HeadRows(staff_all, HeadN)
             IN  out' = [kind |-> "dashboard",
                         total |-> Len(data),
                         hospitals |-> NUnique(Column(data, "Hospital")),
                         regions |-> NUnique(Column(data, "Region")),
                         active_staff |-> NUnique(Column(data, "Staff")),
                         monthly_growth |-> GroupByPeriod(Periods(data)),
                         region_counts |-> region_counts,
                         region_percent |-> RegionPercent(region_counts),
                         staff_counts |-> staff_counts,
                         top_staff |-> staff_counts[1][1]]

\* choice == "Generate Monthly Report"; the rows of monthly_report are kept
\* as a mapping from <<Month, Region>> to "Procedure Count"
MonthlyReport ==
    /\ choice' = "Generate Monthly Report"
    /\ UNCHANGED <<data, staff_list>>
    /\ IF data # <<>>
       THEN LET keys == {<<ToPeriodM(data[i].Date), data[i].Region>> :
                            i \in 1..Len(data)}
            IN  out' = [kind |-> "monthly_report",
                        table |-> data,
                        monthly_report |->
                            [k \in keys |-> Cardinality(
                                {i \in 1..Len(data) :
                                    /\ ToPeriodM(data[i].Date) = k[1]
                                    /\ data[i].Region = k[2]})]]
       ELSE out' = [kind |-> "warning"]

RegionReportInPlace ==
    /\ choice' = "Region Report"
    /\ UNCHANGED staff_list
    /\ IF data # <<>>
       THEN \E selected_region \in Range(Column(data, "Region")) :
             /\ data' = SelectSeq(data,
                            LAMBDA row : row.Region = selected_region)
             /\ out' = [kind |-> "region_report",
                        selected_region |-> selected_region,
                        region_data |-> data',
                        region_summary |-> GroupByPeriod(Periods(data'))]
       ELSE out' = [kind |-> "warning"] /\ UNCHANGED data

\* choice == "Region Report"
RegionReport ==
    /\ choice' = "Region Report"
    /\ UNCHANGED <<data, staff_list>>
    /\ IF data # <<>>
       THEN \E selected_region \in Range(Column(data, "Region")) :
             LET region_data ==
                    SelectSeq(data, LAMBDA row : row.Region = selected_region)
             IN  out' = [kind |-> "region_report",
                         selected_region |-> selected_region,
                         region_data |-> region_data,
                         region_summary |-> GroupByPeriod(Periods(region_data))]
       ELSE out' = [kind |-> "warning"]

\* len(monthly_counts) >= 2
EnoughMonths(monthly_counts) == Len(monthly_counts) >= 2

\* random.randint(a, b) returns any integer of a..b; the model draws both
\* ends and the values next to zero
RandInt(a, b) == {v \in a..b : v \in {a, b, 0, 1}}

\* monthly_counts: the monthly rows, indexed by the months' timestamps
MonthlyCounts(df) ==
    LET by_month == GroupByPeriod(Periods(df))
    IN  [j \in 1..Len(by_month) |->
            <<ToTimestamp(by_month[j][1]), by_month[j][2]>>]

\* choice == "Forecast Procedures"
Forecast ==
    /\ choice' = "Forecast Procedures"
    /\ UNCHANGED <<data, staff_list>>
    /\ IF data # <<>>
       THEN \E monthly_counts \in {MonthlyCounts(data)} :
             IF EnoughMonths(monthly_counts)
             THEN \E last \in {monthly_counts[Len(monthly_counts)]} :
                  \E index \in {DateRangeMS(MonthBegin(last[1]), Horizon)} :
                  \E rand \in [1..Horizon -> RandInt(RandLo, RandHi)] :
                    out' = [kind |-> "forecast",
                            monthly_counts |-> monthly_counts,
                            forecast |-> [j \in 1..Horizon |->
                                <<index[j], last[2] + rand[j]>>]]
             ELSE out' = [kind |-> "warning",
                          monthly_counts |-> monthly_counts]
       ELSE out' = [kind |-> "warning", monthly_counts |-> <<>>]

\* choice == "Leaderboards"
Leaderboards ==
    /\ choice' = "Leaderboards"
    /\ UNCHANGED <<data, staff_list>>
    /\ IF data # <<>>
       THEN \E staff_counts \in ValueCounts(Column(data, "Staff")),
               surgeon_counts \in ValueCounts(Column(data, "Surgeon")) :
             out' = [kind |-> "leaderboards",
                     staff_board |-> HeadRows(staff_counts, HeadN),
                     surgeon_board |-> HeadRows(surgeon_counts, HeadN),
                     top_surgeon |-> surgeon_counts[1][1]]
       ELSE out' = [kind |-> "warning"]

----------------------------------------------------------------------------
(* Specifications: the same script, each with the widget values its        *)
(* properties need                                                         *)

MainIn ==
    [Date |-> {<<2025, 1, 15>>},
     Hospital |-> {<<SP>>, <<SP, "Kijabe", SP, "Hosp", SP>>},
     Region |-> <<Txt("Meru")>>, Fresh |-> 1,
     Procedure |-> {Txt("Arthroplasty")},
     Surgeon |-> {<<"Dr.", SP, "A">>},
     Notes |-> {Txt("routine")},
     NewStaff |-> {<<>>, <<SP>>, Txt("JACOB"), <<SP, "JACOB">>, Txt("NEW")},
     GenDate |-> {<<2025, 1, 2>>}, GenPick |-> 1,
     Pick |-> MaxPick, Cap |-> MaxRecords, Seeded |-> FALSE, Extra |-> 0]

Next ==
    \/ AddProcedure(MainIn)
    \/ ManageStaff(MainIn)
    \/ GenerateTestData(MainIn)
    \/ Dashboard
    \/ MonthlyReport
    \/ RegionReport
    \/ Forecast
    \/ Leaderboards

Spec == Init /\ [][Next]_vars

ViewsIn ==
    [Date |-> {<<2024, 12, 31>>, <<2025, 1, 15>>},
     Hospital |-> {<<"Kijabe", SP, "Hosp">>},
     Region |-> <<Txt("Meru"), Txt("Eldoret")>>, Fresh |-> 2,
     Procedure |-> {Txt("Arthroplasty")},
     Surgeon |-> {<<"Dr.", SP, "A">>},
     Notes |-> {<<>>},
     NewStaff |-> {<<>>, Txt("NEW")},
     GenDate |-> {}, GenPick |-> 0,
     Pick |-> 1, Cap |-> MaxViewRecords, Seeded |-> FALSE, Extra |-> 0]

NextViews ==
    \/ AddProcedure(ViewsIn)
    \/ ManageStaff(ViewsIn)
    \/ Dashboard
    \/ MonthlyReport
    \/ RegionReport
    \/ Forecast
    \/ Leaderboards

SpecViews == Init /\ [][NextViews]_vars

MonthsIn ==
    [Date |-> {<<2024, 11, 30>>, <<2024, 12, 1>>, <<2024, 12, 31>>,
               <<2025, 1, 15>>, <<2025, 12, 5>>},
     Hospital |-> {<<"Kijabe", SP, "Hosp">>},
     Region |-> <<Txt("Meru")>>, Fresh |-> 1,
     Procedure |-> {Txt("Arthroplasty")},
     Surgeon |-> {<<"Dr.", SP, "A">>},
     Notes |-> {<<>>},
     NewStaff |-> {},
     GenDate |-> {}, GenPick |-> 0,
     Pick |-> 1, Cap |-> MaxMonthRecords, Seeded |-> FALSE, Extra |-> 0]

NextMonths ==
    \/ AddProcedure(MonthsIn)
    \/ Dashboard
    \/ Forecast

SpecMonths == Init /\ [][NextMonths]_vars

RegionIn ==
    [Date |-> {<<2025, 1, 15>>},
     Hospital |-> {<<"Kijabe", SP, "Hosp">>},
     Region |-> regions \o <<Txt("Nakuru")>>, Fresh |-> 1,
     Procedure |-> {Txt("Arthroplasty")},
     Surgeon |-> {<<"Dr.", SP, "A">>},
     Notes |-> {<<>>},
     NewStaff |-> {},
     GenDate |-> {}, GenPick |-> 0,
     Pick |-> 1, Cap |-> MaxRegionRecords, Seeded |-> FALSE, Extra |-> 0]

NextRegion ==
    \/ AddProcedure(RegionIn)
    \/ Dashboard

SpecRegion == Init /\ [][NextRegion]_vars

RankIn ==
    [Date |-> {<<2025, 1, 15>>},
     Hospital |-> {<<"Kijabe", SP, "Hosp">>},
     Region |-> <<Txt("Meru")>>, Fresh |-> 1,
     Procedure |-> {Txt("Arthroplasty")},
     Surgeon |-> {surgeons[1], surgeons[2], surgeons[3]},
     Notes |-> {<<>>},
     NewStaff |-> {},
     GenDate |-> {}, GenPick |-> 0,
     Pick |-> 2, Cap |-> MaxRankRecords, Seeded |-> TRUE,
     Extra |-> MaxRankExtra]

NextRank ==
    \/ AddProcedure(RankIn)
    \/ Dashboard
    \/ Leaderboards

SpecRank == InitRank /\ [][NextRank]_vars

----------------------------------------------------------------------------
(* Properties                                                              *)

IsPrefix(a, b) == Len(a) <= Len(b) /\ SubSeq(b, 1, Len(a)) = a

Abs(x) == IF x < 0 THEN 0 - x ELSE x

TextFields == {"Hospital", "Region", "Procedure", "Surgeon", "Staff", "Notes"}

ViewChoices == {"Dashboard", "Generate Monthly Report", "Region Report",
                "Forecast Procedures", "Leaderboards"}

\* the calendar months of the ledger's dates, and their order
MonthsOf(df) == {<<df[i].Date[1], df[i].Date[2]>> : i \in 1..Len(df)}

MonthNumber(p) == 12 * p[1] + p[2]

RowsIn(df, p) ==
    Cardinality({i \in 1..Len(df) : <<df[i].Date[1], df[i].Date[2]>> = p})

LastMonth(df) ==
    CHOOSE p \in MonthsOf(df) :
        \A q \in MonthsOf(df) : MonthNumber(q) <= MonthNumber(p)

\* C1: every step leaves the ledger it found as a prefix of the new ledger:
\* no record is ever removed, replaced or reordered.
C1_AppendOnly == [][IsPrefix(data, data')]_vars

\* C2: the staff list never holds an empty name and never holds the same
\* name twice, whatever strings Add Staff was given.
C2_StaffListClean ==
    /\ \A i \in 1..Len(staff_list) : staff_list[i] # <<>>
    /\ \A i, j \in 1..Len(staff_list) :
            i # j => staff_list[i] # staff_list[j]

\* C3: pressing Add Staff with the empty string, or with a name that is in
\* the staff list, takes the warning branch and leaves the list unchanged.
C3_RejectsEmptyAndPresent ==
    [][(/\ choice' = "Manage Staff"
        /\ out'.kind \in {"success", "warning"}
        /\ (out'.new_staff = <<>> \/ InList(out'.new_staff, staff_list)))
       => (out'.kind = "warning" /\ staff_list' = staff_list)]_vars

C3_Witness ==
    /\ choice = "Manage Staff"
    /\ out.kind = "warning"
    /\ out.new_staff = Txt("JACOB")
    /\ Len(staff_list) > Len(default_staff)

\* C5: no record of the ledger has an empty Hospital, Region, Procedure,
\* Surgeon, Staff or Notes field (blank input is stored as "Unknown").
C5_NoEmptyTextField ==
    \A i \in 1..Len(data) : \A f \in TextFields : data[i][f] # <<>>

\* C9: the Staff of every record of the ledger is a name of the current
\* staff list.
C9_StaffInDirectory ==
    \A i \in 1..Len(data) : InList(data[i].Staff, staff_list)

C9_Witness ==
    /\ Len(data) >= 2
    /\ \E i \in 1..Len(data) : ~InList(data[i].Staff, default_staff)
    /\ \E i \in 1..Len(data) : data[i].Notes = AutoNotes

\* C10: a run of a read-only view changes neither the ledger nor the staff
\* list; Add Procedure leaves the staff list and Manage Staff leaves the
\* ledger as they were.
C10_FrameOfEachRun ==
    [][/\ choice' \in ViewChoices
            => (data' = data /\ staff_list' = staff_list)
       /\ choice' = "Add Procedure" => staff_list' = staff_list
       /\ choice' = "Manage Staff" => data' = data]_vars

C10_Witness ==
    /\ choice = "Region Report"
    /\ out.kind = "region_report"
    /\ Len(out.region_data) < Len(data)
    /\ Len(staff_list) > Len(default_staff)

----------------------------------------------------------------------------
(* Regional shares (SpecRegion)                                            *)

RegionsOf(df) == {df[i].Region : i \in 1..Len(df)}

\* the sum of the displayed shares, in tenths of a percent
ShareSum(shares) ==
    LET RECURSIVE S(_)
        S(i) == IF i = 0 THEN 0 ELSE shares[i][2] + S(i - 1)
    IN  S(Len(shares))

NoShareOfEmptyLedger ==
    (choice = "Dashboard" /\ data = <<>>) => out.kind = "info"

\* C4 as stated: on a non-empty ledger the displayed shares, one per distinct
\* region, sum to 100 with an error of at most 0.1; on an empty ledger no
\* share is computed.
C4_SharesSumTo100 ==
    /\ NoShareOfEmptyLedger
    /\ (choice = "Dashboard" /\ data # <<>>) =>
        /\ Len(out.region_percent) = Cardinality(RegionsOf(data))
        /\ Abs(ShareSum(out.region_percent) - 1000) <= 1

\* C4 amended: on a non-empty ledger the displayed shares, one per distinct
\* region, sum to 100 with an error of at most 0.05 per distinct region
\* (so at most 0.1 for up to three regions); on an empty ledger no share is
\* computed.
C4_SharesSumWithinRounding ==
    /\ NoShareOfEmptyLedger
    /\ (choice = "Dashboard" /\ data # <<>>) =>
        /\ Len(out.region_percent) = Cardinality(RegionsOf(data))
        /\ 2 * Abs(ShareSum(out.region_percent) - 1000)
                <= Cardinality(RegionsOf(data))

C4_Witness ==
    /\ choice = "Dashboard"
    /\ data # <<>>
    /\ Cardinality(RegionsOf(data)) = 6
    /\ ShareSum(out.region_percent) = 1002

----------------------------------------------------------------------------
(* Monthly trend and forecast (SpecMonths)                                 *)

\* C6: with fewer than 2 distinct months in the ledger the forecast run only
\* warns; with 2 or more it shows exactly 3 projected entries, for the 3
\* calendar months that follow the last observed month, in increasing order,
\* each value between the last month's count - 2 and the last month's
\* count + 5.
C6_ForecastContract ==
    choice = "Forecast Procedures" =>
        IF Cardinality(MonthsOf(data)) < 2
        THEN out.kind = "warning"
        ELSE /\ out.kind = "forecast"
             /\ Len(out.forecast) = 3
             /\ \A j \in 1..Len(out.forecast) :
                    LET key == out.forecast[j][1]
                        value == out.forecast[j][2]
                    IN  /\ key[2] \in 1..12
                        /\ MonthNumber(key) = MonthNumber(LastMonth(data)) + j
                        /\ value >= RowsIn(data, LastMonth(data)) - 2
                        /\ value <= RowsIn(data, LastMonth(data)) + 5
             /\ \A j \in 1..(Len(out.forecast) - 1) :
                    MonthNumber(out.forecast[j][1])
                        < MonthNumber(out.forecast[j + 1][1])

C6_Witness ==
    /\ choice = "Forecast Procedures"
    /\ out.kind = "forecast"
    /\ LastMonth(data)[2] = 12
    /\ out.forecast[1][1][1] = LastMonth(data)[1] + 1
    /\ out.forecast[3][2] = RowsIn(data, LastMonth(data)) + 5
    /\ out.forecast[1][2] = RowsIn(data, LastMonth(data)) - 2

\* a monthly series, rows <<month, count>>, against the ledger
IsMonthlyTrendOf(trend, df) ==
    /\ Len(trend) = Cardinality(MonthsOf(df))
    /\ \A j \in 1..Len(trend) :
        /\ <<trend[j][1][1], trend[j][1][2]>> \in MonthsOf(df)
        /\ trend[j][2] = RowsIn(df, <<trend[j][1][1], trend[j][1][2]>>)
    /\ \A j \in 1..(Len(trend) - 1) :
        MonthNumber(trend[j][1]) < MonthNumber(trend[j + 1][1])
    /\ ShareSum(trend) = Len(df)

\* C7: the monthly series of the dashboard and of the forecast has one entry
\* per distinct (year, month) of the ledger, in strictly ascending
\* chronological order whatever the insertion order, each count the number
\* of records of that month, the counts adding up to the number of records.
C7_MonthlyTrend ==
    /\ (choice = "Dashboard" /\ data # <<>>)
            => IsMonthlyTrendOf(out.monthly_growth, data)
    /\ (choice = "Forecast Procedures" /\ data # <<>>)
            => IsMonthlyTrendOf(out.monthly_counts, data)

C7_Witness ==
    /\ choice = "Dashboard"
    /\ Len(data) >= 3
    /\ MonthNumber(data[1].Date) > MonthNumber(data[2].Date)
    /\ data[1].Date[1] > data[2].Date[1]
    /\ data[1].Date[2] < data[2].Date[2]
    /\ \E i, j \in 1..Len(data) :
        /\ data[i].Date # data[j].Date
        /\ MonthNumber(data[i].Date) = MonthNumber(data[j].Date)
    /\ Len(out.monthly_growth) = 2

----------------------------------------------------------------------------
(* Leaderboards (SpecRank)                                                 *)

Occurrences(col, key) == Cardinality({i \in 1..Len(col) : col[i] = key})

FirstIndex(col, key) ==
    CHOOSE i \in 1..Len(col) :
        col[i] = key /\ \A j \in 1..(i - 1) : col[j] # key

KeysOf(col) == {col[i] : i \in 1..Len(col)}

Shown(board) == {board[i][1] : i \in 1..Len(board)}

\* board is the first 10 rows of a listing of every distinct key of col with
\* its count, by count descending
IsBoardOf(board, col) ==
    /\ Len(board) = IF Cardinality(KeysOf(col)) < 10
                    THEN Cardinality(KeysOf(col)) ELSE 10
    /\ \A i \in 1..Len(board) :
        /\ board[i][1] \in KeysOf(col)
        /\ board[i][2] = Occurrences(col, board[i][1])
    /\ \A i, j \in 1..Len(board) :
        i < j => (board[i][1] # board[j][1] /\ board[i][2] >= board[j][2])
    /\ \A k \in KeysOf(col) \ Shown(board) :
        Occurrences(col, k) <= board[Len(board)][2]

\* keys of equal count stand in the order of their first rows in col
TiesByFirstSeen(board, col) ==
    /\ \A i, j \in 1..Len(board) :
        (i < j /\ board[i][2] = board[j][2])
            => FirstIndex(col, board[i][1]) < FirstIndex(col, board[j][1])
    /\ \A k \in KeysOf(col) \ Shown(board) :
        Occurrences(col, k) = board[Len(board)][2]
            => FirstIndex(col, board[Len(board)][1]) < FirstIndex(col, k)

StaffColumn == [i \in 1..Len(data) |-> data[i].Staff]

SurgeonColumn == [i \in 1..Len(data) |-> data[i].Surgeon]

\* C8 amended: each leaderboard is the first 10 rows of the distinct keys
\* with their counts in non-increasing order of count (keys of equal count
\* in an unspecified order), and the celebrated top staff/surgeon is the
\* first row's key, a key of maximal count.
C8_Leaderboards ==
    /\ (choice = "Leaderboards" /\ data # <<>>) =>
        /\ IsBoardOf(out.staff_board, StaffColumn)
        /\ IsBoardOf(out.surgeon_board, SurgeonColumn)
        /\ out.top_surgeon = out.surgeon_board[1][1]
        /\ \A k \in KeysOf(SurgeonColumn) :
            Occurrences(SurgeonColumn, k)
                <= Occurrences(SurgeonColumn, out.top_surgeon)
    /\ (choice = "Dashboard" /\ data # <<>>) =>
        /\ IsBoardOf(out.staff_counts, StaffColumn)
        /\ out.top_staff = out.staff_counts[1][1]
        /\ \A k \in KeysOf(StaffColumn) :
            Occurrences(StaffColumn, k)
                <= Occurrences(StaffColumn, out.top_staff)

\* C8 as stated: as above, and keys of equal count are listed in the order
\* in which they are first encountered in the ledger.
C8_LeaderboardsTiesByFirstSeen ==
    /\ C8_Leaderboards
    /\ (choice = "Leaderboards" /\ data # <<>>) =>
        /\ TiesByFirstSeen(out.staff_board, StaffColumn)
        /\ TiesByFirstSeen(out.surgeon_board, SurgeonColumn)
    /\ (choice = "Dashboard" /\ data # <<>>) =>
        TiesByFirstSeen(out.staff_counts, StaffColumn)

C8_Witness ==
    /\ choice = "Leaderboards"
    /\ data # <<>>
    /\ Cardinality(KeysOf(StaffColumn)) > 10
    /\ Len(out.staff_board) = 10
    /\ \E i \in 1..9 : out.staff_board[i][2] = out.staff_board[i + 1][2]
    /\ Cardinality(KeysOf(SurgeonColumn)) = 2

============================================================================
